---- MODULE Spec2Model ----
(***************************************************************************)
(* Lazy iterators of ahh-ts (src/src/iterator.ts, with Fuse from the       *)
(* revision in src/unnamed/part_014) as a state machine.                   *)
(*                                                                         *)
(* One iterator is driven at a time: `kind` names the class whose next()   *)
(* (and peek()) is called, `lhs` and `rhs` are the iterators it wraps.     *)
(* A wrapped iterator is either a FromIter over a finite array or a FromFn *)
(* whose callback replays a script of Option values cyclically, which lets *)
(* a source return present values again after an absent one.               *)
(*                                                                         *)
(* JavaScript values are modelled as tuples of integers: undefined is the  *)
(* empty tuple, the number n is <<n>>, the array [a, b] of two numbers is  *)
(* <<a, b>>.  Option<T> = undefined | null | T, so "absent" is Undefined.  *)
(***************************************************************************)
EXTENDS Integers, Sequences, FiniteSets, TLC

\* ---------------------------------------------------------------- bounds
MaxLen == 3
MaxItem == 2
MaxOps == 4
MaxTake == 3
MaxNth == 1
MaxPulls == 6
MaxOuter == 3

\* ---------------------------------------------------------------- values
Undefined == <<>>

Num(i) == <<i>>

\* Some<T> = NonNullable<T>: the items an Iterable<T> may hold.
Items == {Num(i) : i \in 1..MaxItem}

\* Option<T> = None | Some<T>
Options == Items \cup {Undefined}

isSome(option) == option # Undefined

isNone(option) == option = Undefined

RECURSIVE SeqsUpTo(_, _)
SeqsUpTo(S, k) ==
  IF k = 0 THEN {<<>>}
  ELSE LET shorter == SeqsUpTo(S, k - 1)
       IN shorter \cup {Append(s, x) : s \in {t \in shorter : Len(t) = k - 1}, x \in S}

\* ---------------------------------------------------------------- sources
\* FromIter: #iter is the array's own iterator, pos its cursor.
FromIter(items) == [cls |-> "FromIter", items |-> items, pos |-> 1, calls |-> 0]

\* FromFn: #next is a callback; the callback used here returns
\* script[i++ % script.length] (undefined for an empty script).
FromFn(script) == [cls |-> "FromFn", items |-> script, pos |-> 1, calls |-> 0]

NoSource == [cls |-> "none", items |-> <<>>, pos |-> 1, calls |-> 0]

\* Mutant: the cursor test is off by one, the last item is never returned.
FromIterNext_DropsLast(s) ==
  IF s.pos >= Len(s.items)
    THEN [ret |-> Undefined, it |-> [s EXCEPT !.calls = @ + 1]]
    ELSE [ret |-> s.items[s.pos], it |-> [s EXCEPT !.pos = @ + 1, !.calls = @ + 1]]

FromIterNext(s) ==
  IF s.pos > Len(s.items)
    THEN [ret |-> Undefined, it |-> [s EXCEPT !.calls = @ + 1]]
    ELSE [ret |-> s.items[s.pos], it |-> [s EXCEPT !.pos = @ + 1, !.calls = @ + 1]]

FromFnNext(s) ==
  IF Len(s.items) = 0
    THEN [ret |-> Undefined, it |-> [s EXCEPT !.calls = @ + 1]]
    ELSE [ret |-> s.items[s.pos],
          it |-> [s EXCEPT !.pos = (@ % Len(s.items)) + 1, !.calls = @ + 1]]

\* Repeat: #item is returned by every next().
Repeat(x) == [cls |-> "Repeat", items |-> <<x>>, pos |-> 1, calls |-> 0]

RepeatNext(s) == [ret |-> s.items[1], it |-> [s EXCEPT !.calls = @ + 1]]

\* Iterator.next() of a wrapped iterator: the value returned and the
\* iterator afterwards.
SourceNext(s) ==
  CASE s.cls = "FromIter" -> FromIterNext(s)
    [] s.cls = "Repeat" -> RepeatNext(s)
    [] OTHER -> FromFnNext(s)

FiniteSources == {FromIter(q) : q \in SeqsUpTo(Items, MaxLen)}

AnySources == FiniteSources \cup {FromFn(q) : q \in SeqsUpTo(Options, MaxLen)}

Kinds == {"FromIter", "Once", "Peekable", "Fuse", "Take", "Zip", "TakeWhile"}

Preds == [Items -> BOOLEAN]

NoPred == [x \in Items |-> FALSE]

\* What a callback throws when called with an item: an exception value, or
\* Undefined when it returns normally.
Errors == {Num(-1), Num(-2)}

Throws == [Items -> Errors \cup {Undefined}]

NoThrows == [x \in Items |-> Undefined]

\* The functions given to map: a result may be null or undefined.
MapFns == [Items -> Options]

\* ---------------------------------------------------------------- state
VARIABLES
  kind,      \* class of the iterator under test
  lhs,       \* #iter / #lhs : the wrapped iterator
  rhs,       \* #rhs : the second wrapped iterator (Zip)
  item,      \* Once.#item
  peeked,    \* Peekable.#peeked
  n,         \* Take.#n
  iterSome,  \* Fuse.#iter / TakeWhile.#iter is Some (not yet discarded)
  fn,        \* TakeWhile.#fn / Map.#fn / the callback given to find, all, any
  count,     \* Enumerate.#count
  ctor,      \* the arguments the iterator was constructed with (never changed)
  throws,    \* what the callback throws, per item (never changed)
  frame,     \* the forEach loop in progress: its locals, or Idle
  intersperse, \* the flag captured by the callback of intersperse
  inners,    \* the iterators chained by flatten, in order
  hist       \* the calls made so far: operation, result, source calls made

vars ==
  <<kind, lhs, rhs, item, peeked, n, iterSome, fn, count, ctor, throws, frame,
    intersperse, inners, hist>>

\* One entry of hist: the operation called, what it returned, and how many
\* times it called next() on lhs and on rhs (read off the call counters).
Call(op, ret, l, r) ==
  [op |-> op, ret |-> ret, l |-> l.calls - lhs.calls, r |-> r.calls - rhs.calls]

\* No call is in progress.
Idle == [op |-> "idle"]

\* The caller may make another call: none is in progress.
CanCall == Len(hist) < MaxOps /\ frame = Idle

\* ---------------------------------------------------------------- actions
\* FromIter.next()
NextFromIter ==
  /\ kind = "FromIter" /\ CanCall
  /\ LET c == FromIterNext(lhs)
     IN /\ lhs' = c.it
        /\ hist' = Append(hist, Call("next", c.ret, c.it, rhs))
  /\ UNCHANGED <<kind, ctor, throws, frame, intersperse, inners, count, rhs, item, peeked, n, iterSome, fn>>

\* Once.next()
OnceNext(it) ==
  IF isSome(it) THEN [ret |-> it, item |-> Undefined]
  ELSE [ret |-> Undefined, item |-> it]

NextOnce ==
  /\ kind = "Once" /\ CanCall
  /\ LET c == OnceNext(item)
     IN /\ item' = c.item
        /\ hist' = Append(hist, Call("next", c.ret, lhs, rhs))
  /\ UNCHANGED <<kind, ctor, throws, frame, intersperse, inners, count, lhs, rhs, peeked, n, iterSome, fn>>

\* Peekable.next(): the buffered item if there is one, else a fresh pull.
PeekableNext(p, s) ==
  IF isSome(p)
    THEN [ret |-> p, peeked |-> Undefined, it |-> s]
    ELSE LET c == SourceNext(s)
         IN [ret |-> c.ret, peeked |-> p, it |-> c.it]

NextPeekable ==
  /\ kind = "Peekable" /\ CanCall
  /\ LET c == PeekableNext(peeked, lhs)
     IN /\ peeked' = c.peeked
        /\ lhs' = c.it
        /\ hist' = Append(hist, Call("next", c.ret, c.it, rhs))
  /\ UNCHANGED <<kind, ctor, throws, frame, intersperse, inners, count, rhs, item, n, iterSome, fn>>

\* Mutant: peek() returns the source's next item without storing it.
PeekablePeek_NoBuffer(p, s) ==
  IF isNone(p)
    THEN LET c == SourceNext(s)
         IN [ret |-> c.ret, peeked |-> p, it |-> c.it]
    ELSE [ret |-> p, peeked |-> p, it |-> s]

\* Peekable.peek(): fills #peeked from the source when #peeked is None.
PeekablePeek(p, s) ==
  IF isNone(p)
    THEN LET c == SourceNext(s)
         IN [ret |-> c.ret, peeked |-> c.ret, it |-> c.it]
    ELSE [ret |-> p, peeked |-> p, it |-> s]

PeekPeekable ==
  /\ kind = "Peekable" /\ CanCall
  /\ LET c == PeekablePeek(peeked, lhs)
     IN /\ peeked' = c.peeked
        /\ lhs' = c.it
        /\ hist' = Append(hist, Call("peek", c.ret, c.it, rhs))
  /\ UNCHANGED <<kind, ctor, throws, frame, intersperse, inners, count, rhs, item, n, iterSome, fn>>

\* Mutant: #iter is kept after the first None.
FuseNext_KeepsIter(some, s) ==
  IF some
    THEN LET c == SourceNext(s)
         IN [ret |-> c.ret, some |-> some, it |-> c.it]
    ELSE [ret |-> Undefined, some |-> some, it |-> s]

\* Fuse.next(): #iter is set to undefined at the first None.
FuseNext(some, s) ==
  IF some
    THEN LET c == SourceNext(s)
         IN [ret |-> c.ret, some |-> isSome(c.ret), it |-> c.it]
    ELSE [ret |-> Undefined, some |-> some, it |-> s]

NextFuse ==
  /\ kind = "Fuse" /\ CanCall
  /\ LET c == FuseNext(iterSome, lhs)
     IN /\ iterSome' = c.some
        /\ lhs' = c.it
        /\ hist' = Append(hist, Call("next", c.ret, c.it, rhs))
  /\ UNCHANGED <<kind, ctor, throws, frame, intersperse, inners, count, rhs, item, peeked, n, fn>>

\* Mutant: `>=` for `>`, one call too many reaches the source.
TakeNext_OffByOne(k, s) ==
  IF k >= 0
    THEN LET c == SourceNext(s)
         IN [ret |-> c.ret, n |-> k - 1, it |-> c.it]
    ELSE [ret |-> Undefined, n |-> k - 1, it |-> s]

\* Mutant: an exhausted take still pulls the source and drops the item.
TakeNext_Drains(k, s) ==
  LET c == SourceNext(s)
  IN [ret |-> IF k > 0 THEN c.ret ELSE Undefined, n |-> k - 1, it |-> c.it]

\* Take.next(): `if (this.#n-- > 0)`, #n is decremented on every call.
TakeNext(k, s) ==
  IF k > 0
    THEN LET c == SourceNext(s)
         IN [ret |-> c.ret, n |-> k - 1, it |-> c.it]
    ELSE [ret |-> Undefined, n |-> k - 1, it |-> s]

NextTake ==
  /\ kind = "Take" /\ CanCall
  /\ LET c == TakeNext(n, lhs)
     IN /\ n' = c.n
        /\ lhs' = c.it
        /\ hist' = Append(hist, Call("next", c.ret, c.it, rhs))
  /\ UNCHANGED <<kind, ctor, throws, frame, intersperse, inners, count, rhs, item, peeked, iterSome, fn>>

\* Mutant: `||` for `&&`.
ZipNext_Either(a, b) ==
  LET ca == SourceNext(a)
      cb == SourceNext(b)
  IN [ret |-> IF isSome(ca.ret) \/ isSome(cb.ret) THEN ca.ret \o cb.ret ELSE Undefined,
      lhs |-> ca.it, rhs |-> cb.it, order |-> <<"lhs", "rhs">>]

\* Mutant: the right side is pulled only when the left side is present.
ZipNext_ShortCircuit(a, b) ==
  LET ca == SourceNext(a)
      cb == SourceNext(b)
  IN IF isSome(ca.ret)
       THEN [ret |-> IF isSome(cb.ret) THEN ca.ret \o cb.ret ELSE Undefined,
             lhs |-> ca.it, rhs |-> cb.it, order |-> <<"lhs", "rhs">>]
       ELSE [ret |-> Undefined, lhs |-> ca.it, rhs |-> b, order |-> <<"lhs">>]

\* Mutant: the left item is put back when the right side is absent.
ZipNext_KeepsLeft(a, b) ==
  LET ca == SourceNext(a)
      cb == SourceNext(b)
  IN [ret |-> IF isSome(ca.ret) /\ isSome(cb.ret) THEN ca.ret \o cb.ret ELSE Undefined,
      lhs |-> IF isSome(ca.ret) /\ isNone(cb.ret) THEN a ELSE ca.it,
      rhs |-> cb.it, order |-> <<"lhs", "rhs">>]

\* Zip.next(): both sides are pulled, left first, then both are tested.
\*   const lhs = this.#lhs.next();
\*   const rhs = this.#rhs.next();
\* order lists the sides in the order these statements call them.
ZipNext(a, b) ==
  LET ca == SourceNext(a)
      cb == SourceNext(b)
  IN [ret |-> IF isSome(ca.ret) /\ isSome(cb.ret) THEN ca.ret \o cb.ret ELSE Undefined,
      lhs |-> ca.it, rhs |-> cb.it, order |-> <<"lhs", "rhs">>]

NextZip ==
  /\ kind = "Zip" /\ CanCall
  /\ LET c == ZipNext(lhs, rhs)
     IN /\ lhs' = c.lhs
        /\ rhs' = c.rhs
        /\ hist' = Append(hist, [op |-> "next", ret |-> c.ret, order |-> c.order,
                                 l |-> c.lhs.calls - lhs.calls,
                                 r |-> c.rhs.calls - rhs.calls])
  /\ UNCHANGED <<kind, ctor, throws, frame, intersperse, inners, count, item, peeked, n, iterSome, fn>>

\* TakeWhile.next(): #iter is tested but never set to undefined.
TakeWhileNext(some, s, f) ==
  IF some
    THEN LET c == SourceNext(s)
         IN [ret |-> IF isSome(c.ret) /\ f[c.ret] THEN c.ret ELSE Undefined,
             some |-> some, it |-> c.it]
    ELSE [ret |-> Undefined, some |-> some, it |-> s]

NextTakeWhile ==
  /\ kind = "TakeWhile" /\ CanCall
  /\ LET c == TakeWhileNext(iterSome, lhs, fn)
     IN /\ iterSome' = c.some
        /\ lhs' = c.it
        /\ hist' = Append(hist, Call("next", c.ret, c.it, rhs))
  /\ UNCHANGED <<kind, ctor, throws, frame, intersperse, inners, count, rhs, item, peeked, n, fn>>

\* The caller pulls the wrapped iterator itself (as the tests do after
\* the wrapper is exhausted).
NextLhs ==
  /\ kind \notin {"FromIter", "Once", "Successors", "Flatten"} /\ CanCall
  /\ LET c == SourceNext(lhs)
     IN /\ lhs' = c.it
        /\ hist' = Append(hist, Call("lhs", c.ret, c.it, rhs))
  /\ UNCHANGED <<kind, ctor, throws, frame, intersperse, inners, count, rhs, item, peeked, n, iterSome, fn>>

NextRhs ==
  /\ kind = "Zip" /\ CanCall
  /\ LET c == SourceNext(rhs)
     IN /\ rhs' = c.it
        /\ hist' = Append(hist, Call("rhs", c.ret, lhs, c.it))
  /\ UNCHANGED <<kind, ctor, throws, frame, intersperse, inners, count, lhs, item, peeked, n, iterSome, fn>>

\* ------------------------------------------- further iterator classes
\* Mutant: the item is taken with next() and lost when fn refuses it.
PeekableNextIf_Consumes(p, s, f) ==
  LET c == PeekableNext(p, s)
  IN IF isSome(c.ret) /\ f[c.ret]
       THEN c
       ELSE [ret |-> Undefined, peeked |-> c.peeked, it |-> c.it]

\* Peekable.nextIf(fn): peek, then next() only if the item passes fn.
PeekableNextIf(p, s, f) ==
  LET pk == PeekablePeek(p, s)
  IN IF isSome(pk.ret) /\ f[pk.ret]
       THEN PeekableNext(pk.peeked, pk.it)
       ELSE [ret |-> Undefined, peeked |-> pk.peeked, it |-> pk.it]

NextIfPeekable ==
  /\ kind = "Peekable" /\ CanCall
  /\ \E f \in Preds :
       LET c == PeekableNextIf(peeked, lhs, f)
       IN /\ peeked' = c.peeked
          /\ lhs' = c.it
          /\ hist' = Append(hist, [op |-> "nextIf", arg |-> f, ret |-> c.ret,
                                   peeked |-> c.peeked,
                                   l |-> c.it.calls - lhs.calls, r |-> 0])
  /\ UNCHANGED <<kind, ctor, throws, frame, intersperse, inners, count, rhs, item, n,
                 iterSome, fn>>

\* Mutant: the prefix is dropped with next(), which also drops the first
\* item that fails fn.
RECURSIVE SkipWhileLoop_DropsFirst(_, _, _)
SkipWhileLoop_DropsFirst(p, s, f) ==
  LET c == PeekableNext(p, s)
  IN IF isSome(c.ret) /\ f[c.ret]
       THEN SkipWhileLoop_DropsFirst(c.peeked, c.it, f)
       ELSE [peeked |-> c.peeked, it |-> c.it]

\* SkipWhile's constructor: `while (O.isSome(iter_.nextIf(fn)));` on a
\* fresh Peekable; the Peekable (source and #peeked) is kept as #iter.
RECURSIVE SkipWhileLoop(_, _, _)
SkipWhileLoop(p, s, f) ==
  LET c == PeekableNextIf(p, s, f)
  IN IF isSome(c.ret)
       THEN SkipWhileLoop(c.peeked, c.it, f)
       ELSE [peeked |-> c.peeked, it |-> c.it]

\* SkipWhile.next() is the kept Peekable's next().
NextSkipWhile ==
  /\ kind = "SkipWhile" /\ CanCall
  /\ LET c == PeekableNext(peeked, lhs)
     IN /\ peeked' = c.peeked
        /\ lhs' = c.it
        /\ hist' = Append(hist, Call("next", c.ret, c.it, rhs))
  /\ UNCHANGED <<kind, ctor, throws, frame, intersperse, inners, count, rhs, item, n, iterSome, fn>>

\* Mutant: `>=` for `>`, one item too many is discarded.
RECURSIVE SkipLoop_OffByOne(_, _)
SkipLoop_OffByOne(s, k) ==
  IF k >= 0
    THEN LET c == SourceNext(s)
         IN IF isSome(c.ret) THEN SkipLoop_OffByOne(c.it, k - 1) ELSE c.it
    ELSE s

\* Skip's constructor: `while (n-- > 0 && O.isSome(iter.next()));`
RECURSIVE SkipLoop(_, _)
SkipLoop(s, k) ==
  IF k > 0
    THEN LET c == SourceNext(s)
         IN IF isSome(c.ret) THEN SkipLoop(c.it, k - 1) ELSE c.it
    ELSE s

\* Skip.next() passes the source's next() through.
NextSkip ==
  /\ kind = "Skip" /\ CanCall
  /\ LET c == SourceNext(lhs)
     IN /\ lhs' = c.it
        /\ hist' = Append(hist, Call("next", c.ret, c.it, rhs))
  /\ UNCHANGED <<kind, ctor, throws, frame, intersperse, inners, count, rhs, item, peeked, n, iterSome, fn>>

\* Mutant: once the right side has been pulled the left side is left alone.
ChainNext_LeftOnce(a, b) ==
  IF b.calls > 0
    THEN LET cb == SourceNext(b)
         IN [ret |-> cb.ret, lhs |-> a, rhs |-> cb.it]
    ELSE LET ca == SourceNext(a)
             cb == SourceNext(b)
         IN IF isSome(ca.ret)
              THEN [ret |-> ca.ret, lhs |-> ca.it, rhs |-> b]
              ELSE [ret |-> cb.ret, lhs |-> ca.it, rhs |-> cb.it]

\* Mutant: the right side comes first.
ChainNext_RightFirst(a, b) ==
  LET ca == SourceNext(a)
      cb == SourceNext(b)
  IN IF isSome(cb.ret)
       THEN [ret |-> cb.ret, lhs |-> a, rhs |-> cb.it]
       ELSE [ret |-> ca.ret, lhs |-> ca.it, rhs |-> cb.it]

\* Chain.next(): `this.#lhs.next() ?? this.#rhs.next()`
ChainNext(a, b) ==
  LET ca == SourceNext(a)
      cb == SourceNext(b)
  IN IF isSome(ca.ret)
       THEN [ret |-> ca.ret, lhs |-> ca.it, rhs |-> b]
       ELSE [ret |-> cb.ret, lhs |-> ca.it, rhs |-> cb.it]

NextChain ==
  /\ kind = "Chain" /\ CanCall
  /\ LET c == ChainNext(lhs, rhs)
     IN /\ lhs' = c.lhs
        /\ rhs' = c.rhs
        /\ hist' = Append(hist, Call("next", c.ret, c.lhs, c.rhs))
  /\ UNCHANGED <<kind, ctor, throws, frame, intersperse, inners, count, item, peeked, n, iterSome, fn>>

\* O.map(option, fn): `isSome(option) ? fn(option) : option`
Omap(option, f) == IF isSome(option) THEN f[option] ELSE option

\* Mutant: the item is passed through unmapped.
MapNext_Identity(s, f, t) ==
  LET c == SourceNext(s)
  IN [ret |-> c.ret, thrown |-> FALSE, it |-> c.it]

\* Mutant: an exception of the callback is caught and absent is returned.
MapNext_Swallows(s, f, t) ==
  LET c == SourceNext(s)
  IN IF isSome(c.ret) /\ isSome(t[c.ret])
       THEN [ret |-> Undefined, thrown |-> FALSE, it |-> c.it]
       ELSE [ret |-> Omap(c.ret, f), thrown |-> FALSE, it |-> c.it]

\* Map.next(): `O.map(this.#iter.next(), this.#fn)`.  When #fn throws
\* (t says what) nothing catches the exception: the call ends with it,
\* after #iter.next() has returned.
MapNext(s, f, t) ==
  LET c == SourceNext(s)
  IN IF isSome(c.ret) /\ isSome(t[c.ret])
       THEN [ret |-> t[c.ret], thrown |-> TRUE, it |-> c.it]
       ELSE [ret |-> Omap(c.ret, f), thrown |-> FALSE, it |-> c.it]

\* An entry of hist for a call that may end with an exception: ret is
\* then the value thrown.
CallThrown(op, c, l, r) ==
  [op |-> op, ret |-> c.ret, thrown |-> c.thrown,
   l |-> l.calls - lhs.calls, r |-> r.calls - rhs.calls]

NextMap ==
  /\ kind = "Map" /\ CanCall
  /\ LET c == MapNext(lhs, fn, throws)
     IN /\ lhs' = c.it
        /\ hist' = Append(hist, CallThrown("next", c, c.it, rhs))
  /\ UNCHANGED <<kind, ctor, throws, frame, intersperse, inners, count, rhs, item, peeked, n, iterSome, fn>>

\* Filter.next(): `this.#iter.find(this.#fn)`, the loop of find with the
\* callback #fn; an exception of #fn ends the loop and the call.
RECURSIVE FilterNext(_, _, _)
FilterNext(s, f, t) ==
  LET c == SourceNext(s)
  IN IF isSome(c.ret) /\ isSome(t[c.ret])
       THEN [ret |-> t[c.ret], thrown |-> TRUE, it |-> c.it]
       ELSE IF isSome(c.ret) /\ ~f[c.ret]
         THEN FilterNext(c.it, f, t)
         ELSE [ret |-> c.ret, thrown |-> FALSE, it |-> c.it]

NextFilter ==
  /\ kind = "Filter" /\ CanCall
  /\ LET c == FilterNext(lhs, fn, throws)
     IN /\ lhs' = c.it
        /\ hist' = Append(hist, CallThrown("next", c, c.it, rhs))
  /\ UNCHANGED <<kind, ctor, throws, frame, intersperse, inners, count, rhs, item, peeked,
                 n, iterSome, fn>>

\* Mutant: #count is incremented on every call, also when the source
\* returned absent.
EnumerateNext_CountsCalls(cnt, s) ==
  LET c == SourceNext(s)
  IN [ret |-> IF isSome(c.ret) THEN <<cnt>> \o c.ret ELSE Undefined,
      count |-> cnt + 1, it |-> c.it]

\* Enumerate.next(): `O.map(this.#iter.next(), (value) => [this.#count++, value])`
EnumerateNext(cnt, s) ==
  LET c == SourceNext(s)
  IN IF isSome(c.ret)
       THEN [ret |-> <<cnt>> \o c.ret, count |-> cnt + 1, it |-> c.it]
       ELSE [ret |-> c.ret, count |-> cnt, it |-> c.it]

NextEnumerate ==
  /\ kind = "Enumerate" /\ CanCall
  /\ LET c == EnumerateNext(count, lhs)
     IN /\ count' = c.count
        /\ lhs' = c.it
        /\ hist' = Append(hist, Call("next", c.ret, c.it, rhs))
  /\ UNCHANGED <<kind, ctor, throws, frame, intersperse, inners, rhs, item, peeked, n, iterSome, fn>>

\* ------------------------------------------- the same combinators in other revisions
\* O.zip(option, other):
\*   `isSome(option) ? (isSome(other) ? [option, other] : other) : option`
Ozip(option, other) ==
  IF isSome(option) THEN (IF isSome(other) THEN option \o other ELSE other) ELSE option

\* next() of enumerate() in src/unnamed/part_014:
\*   `successors<number>(0, (i) => i + 1).zip(this)`, and zip(other) is
\*   `new FromFnIter(() => O.zip(this.next(), other.next()))`.
\* The successors iterator yields its counter and increments it on every
\* call, whatever the source returns.
EnumerateZipNext(cnt, s) ==
  LET c == SourceNext(s)
  IN [ret |-> Ozip(Num(cnt), c.ret), count |-> cnt + 1, it |-> c.it]

NextEnumerateZip ==
  /\ kind = "EnumerateZip" /\ CanCall
  /\ LET c == EnumerateZipNext(count, lhs)
     IN /\ count' = c.count
        /\ lhs' = c.it
        /\ hist' = Append(hist, Call("next", c.ret, c.it, rhs))
  /\ UNCHANGED <<kind, ctor, throws, frame, intersperse, inners, rhs, item, peeked, n,
                 iterSome, fn>>

\* next() of I.skipWhile(iter, f) in src/src/iter/mod.ts:668-675, the
\* callback given to I.fn:
\*   let next = iter.next();
\*   while (O.isSome(next) && f(next[SOME])) next = iter.next();
\*   return next;
\* The loop runs on every call, not only on the first.
RECURSIVE SkipWhileFnNext(_, _)
SkipWhileFnNext(s, f) ==
  LET c == SourceNext(s)
  IN IF isSome(c.ret) /\ f[c.ret]
       THEN SkipWhileFnNext(c.it, f)
       ELSE c

NextSkipWhileFn ==
  /\ kind = "SkipWhileFn" /\ CanCall
  /\ LET c == SkipWhileFnNext(lhs, fn)
     IN /\ lhs' = c.it
        /\ hist' = Append(hist, Call("next", c.ret, c.it, rhs))
  /\ UNCHANGED <<kind, ctor, throws, frame, intersperse, inners, count, rhs, item, peeked,
                 n, iterSome, fn>>

\* ------------------------------------------- methods of Iterator
\* An entry of hist for a method that takes an argument.
CallArg(op, arg, ret, l, r) ==
  [op |-> op, arg |-> arg, ret |-> ret,
   l |-> l.calls - lhs.calls, r |-> r.calls - rhs.calls]

\* Mutant: n counted from 1, `skip(n - 1)`.
IteratorNth_OneBased(s, k) == SourceNext(SkipLoop(s, k - 1))

\* Iterator.nth(n): `this.skip(n).next()`
IteratorNth(s, k) == SourceNext(SkipLoop(s, k))

CallNth ==
  /\ kind = "Iterator" /\ CanCall
  /\ \E k \in 0..MaxNth :
       LET c == IteratorNth(lhs, k)
       IN /\ lhs' = c.it
          /\ hist' = Append(hist, CallArg("nth", k, c.ret, c.it, rhs))
  /\ UNCHANGED <<kind, ctor, throws, frame, intersperse, inners, count, rhs, item, peeked, n, iterSome, fn>>

\* Mutant: the loop pulls once more after the match (the item after the
\* match is consumed).
RECURSIVE IteratorFind_PullsOneMore(_, _)
IteratorFind_PullsOneMore(s, f) ==
  LET c == SourceNext(s)
  IN IF isSome(c.ret) /\ ~f[c.ret]
       THEN IteratorFind_PullsOneMore(c.it, f)
       ELSE [ret |-> c.ret, it |-> SourceNext(c.it).it]

\* Iterator.find(fn):
\*   let value = this.next();
\*   while (O.isSome(value) && !fn(value)) value = this.next();
\*   return value;
RECURSIVE IteratorFind(_, _)
IteratorFind(s, f) ==
  LET c == SourceNext(s)
  IN IF isSome(c.ret) /\ ~f[c.ret]
       THEN IteratorFind(c.it, f)
       ELSE c

CallFind ==
  /\ kind = "Iterator" /\ CanCall
  /\ LET c == IteratorFind(lhs, fn)
     IN /\ lhs' = c.it
        /\ hist' = Append(hist, CallArg("find", fn, c.ret, c.it, rhs))
  /\ UNCHANGED <<kind, ctor, throws, frame, intersperse, inners, count, rhs, item, peeked, n, iterSome, fn>>

Not(f) == [x \in DOMAIN f |-> ~f[x]]

\* Mutant: all() folds over the whole iterator instead of stopping at the
\* first failing item.
IteratorAll_Drains(s, f) ==
  LET c == IteratorFind(s, Not(f))
  IN [ret |-> isNone(c.ret),
      it |-> IF isNone(c.ret) THEN c.it ELSE IteratorFind(c.it, NoPred).it]

\* Iterator.all(fn): `O.isNone(this.find((item) => !fn(item)))`
IteratorAll(s, f) ==
  LET c == IteratorFind(s, Not(f))
  IN [ret |-> isNone(c.ret), it |-> c.it]

CallAll ==
  /\ kind = "Iterator" /\ CanCall
  /\ LET c == IteratorAll(lhs, fn)
     IN /\ lhs' = c.it
        /\ hist' = Append(hist, CallArg("all", fn, c.ret, c.it, rhs))
  /\ UNCHANGED <<kind, ctor, throws, frame, intersperse, inners, count, rhs, item, peeked, n, iterSome, fn>>

\* Iterator.any(fn): `O.isSome(this.find(fn))`
IteratorAny(s, f) ==
  LET c == IteratorFind(s, f)
  IN [ret |-> isSome(c.ret), it |-> c.it]

CallAny ==
  /\ kind = "Iterator" /\ CanCall
  /\ LET c == IteratorAny(lhs, fn)
     IN /\ lhs' = c.it
        /\ hist' = Append(hist, CallArg("any", fn, c.ret, c.it, rhs))
  /\ UNCHANGED <<kind, ctor, throws, frame, intersperse, inners, count, rhs, item, peeked, n, iterSome, fn>>

\* ------------------------------------------- successors, intersperse, flatten
\* Mutant: the seed is not yielded, the first value is fn(seed).
SuccessorsNext_SkipsSeed(it, f) ==
  IF isSome(it)
    THEN [ret |-> f[it], item |-> f[it], f |-> 1]
    ELSE [ret |-> it, item |-> it, f |-> 0]

\* Successors.next(): returns #item, after replacing it by #fn(#item)
\* when it is Some; f is the number of calls of #fn.
SuccessorsNext(it, f) ==
  IF isSome(it)
    THEN [ret |-> it, item |-> f[it], f |-> 1]
    ELSE [ret |-> it, item |-> it, f |-> 0]

NextSuccessors ==
  /\ kind = "Successors" /\ CanCall
  /\ LET c == SuccessorsNext(item, fn)
     IN /\ item' = c.item
        /\ hist' = Append(hist, [op |-> "next", ret |-> c.ret, l |-> 0, r |-> 0, f |-> c.f])
  /\ UNCHANGED <<kind, ctor, throws, frame, intersperse, inners, count, lhs, rhs, peeked,
                 n, iterSome, fn>>

\* Mutant: the first call goes to `other`.
IntersperseNext_OtherFirst(flag, a, b) ==
  LET ca == SourceNext(a)
      cb == SourceNext(b)
  IN IF ~flag
       THEN [ret |-> cb.ret, intersperse |-> TRUE, lhs |-> a, rhs |-> cb.it]
       ELSE [ret |-> ca.ret, intersperse |-> FALSE, lhs |-> ca.it, rhs |-> b]

\* The callback of intersperse(other): `other.next()` when the flag is
\* set, `this.next()` otherwise; the flag is flipped on every call.
IntersperseNext(flag, a, b) ==
  LET ca == SourceNext(a)
      cb == SourceNext(b)
  IN IF flag
       THEN [ret |-> cb.ret, intersperse |-> FALSE, lhs |-> a, rhs |-> cb.it]
       ELSE [ret |-> ca.ret, intersperse |-> TRUE, lhs |-> ca.it, rhs |-> b]

NextIntersperse ==
  /\ kind = "Intersperse" /\ CanCall
  /\ LET c == IntersperseNext(intersperse, lhs, rhs)
     IN /\ intersperse' = c.intersperse
        /\ lhs' = c.lhs
        /\ rhs' = c.rhs
        /\ hist' = Append(hist, Call("next", c.ret, c.lhs, c.rhs))
  /\ UNCHANGED <<kind, ctor, throws, frame, inners, count, item, peeked, n, iterSome, fn>>

\* Mutant: the outer iterator is not folded, only its first item is kept.
FlattenNext_FirstOnly(its) ==
  IF Len(its) = 0 THEN [ret |-> Undefined, its |-> its]
  ELSE LET c == SourceNext(its[1]) IN [ret |-> c.ret, its |-> <<c.it>> \o Tail(its)]

\* next() of flatten(iter).  flatten folds the outer iterator with chain,
\*   fold(iter, unwrapOr(iter.next(), empty()), (iterA, iterB) => chain(iterA, iterB))
\* so over inner iterators i1..ik it is chain(...chain(chain(i1, i2), i3)..., ik),
\* i1 alone for k = 1 and empty() for k = 0, and chain's callback is
\*   const next = iterA.next(); return O.isSome(next) ? next : iterB.next();
RECURSIVE FlattenNext(_)
FlattenNext(its) ==
  IF Len(its) = 0 THEN [ret |-> Undefined, its |-> its]
  ELSE IF Len(its) = 1
    THEN LET c == SourceNext(its[1]) IN [ret |-> c.ret, its |-> <<c.it>>]
  ELSE LET a == FlattenNext(SubSeq(its, 1, Len(its) - 1))
           b == SourceNext(its[Len(its)])
       IN IF isSome(a.ret)
            THEN [ret |-> a.ret, its |-> Append(a.its, its[Len(its)])]
            ELSE [ret |-> b.ret, its |-> Append(a.its, b.it)]

NextFlatten ==
  /\ kind = "Flatten" /\ CanCall
  /\ LET c == FlattenNext(inners)
     IN /\ inners' = c.its
        /\ hist' = Append(hist, Call("next", c.ret, lhs, rhs))
  /\ UNCHANGED <<kind, ctor, throws, frame, intersperse, count, lhs, rhs, item, peeked,
                 n, iterSome, fn>>

\* ------------------------------------------- forEach, fold, count, last
\* The accumulators and the callbacks given to fold.
Accs == {Num(0), Num(1)}

FoldFns == [Accs \X Items -> Accs]

\* Mutant: fold's closure passes the initial accumulator on every call.
FoldCallback_KeepsInit(op, f, acc, x) ==
  CASE op = "fold" -> f[<<Num(0), x>>]
    [] op = "count" -> Num(acc[1] + 1)
    [] op = "last" -> x
    [] OTHER -> acc

\* The callback forEach is given, as an update of the variable `init` it
\* closes over:
\*   fold(init, fn): (value) => init = fn(init, value)
\*   count(): fold(0, (init, _) => ++init)
\*   last(): fold(undefined, (_, item) => item)
\*   forEach(fn): fn itself, whose result is discarded
FoldCallback(op, f, acc, x) ==
  CASE op = "fold" -> f[<<acc, x>>]
    [] op = "count" -> Num(acc[1] + 1)
    [] op = "last" -> x
    [] OTHER -> acc

\* forEach, `let value = this.next();`: the frame of the call.
ForEachEnter(op, init, s) ==
  LET c == SourceNext(s)
  IN [frame |-> [op |-> op, arg |-> init, init |-> init, value |-> c.ret,
                 seen |-> <<>>, base |-> s.calls],
      it |-> c.it]

\* Mutant: the loop pulls again before testing, every other item is lost.
ForEachBody_PullsTwice(fr, f, s) ==
  LET c == SourceNext(SourceNext(s).it)
  IN [frame |-> [fr EXCEPT !.init = FoldCallback(fr.op, f, fr.init, fr.value),
                           !.seen = Append(@, <<fr.init, fr.value>>),
                           !.value = c.ret],
      it |-> c.it]

\* forEach, one turn of `while (O.isSome(value)) { fn(value); value = this.next(); }`
ForEachBody(fr, f, s) ==
  LET c == SourceNext(s)
  IN [frame |-> [fr EXCEPT !.init = FoldCallback(fr.op, f, fr.init, fr.value),
                           !.seen = Append(@, <<fr.init, fr.value>>),
                           !.value = c.ret],
      it |-> c.it]

\* What the call returns once the loop has ended: fold, count and last
\* return `init`, forEach returns nothing.
ForEachResult(fr) == IF fr.op = "forEach" THEN Undefined ELSE fr.init

\* A call enters forEach.  fold(init, fn) is called on the iterators of
\* kind "Fold", for which fn is drawn from FoldFns; forEach, count and
\* last, which have no callback of their own here, on those of kind "ForEach".
EnterForEach(op, init) ==
  /\ kind = (IF op = "fold" THEN "Fold" ELSE "ForEach") /\ CanCall
  /\ LET c == ForEachEnter(op, init, lhs)
     IN /\ frame' = c.frame
        /\ lhs' = c.it
  /\ UNCHANGED <<kind, ctor, throws, intersperse, inners, count, rhs, item, peeked, n,
                 iterSome, fn, hist>>

CallForEach == EnterForEach("forEach", Undefined)

CallFold == \E init \in Accs : EnterForEach("fold", init)

CallCount == EnterForEach("count", Num(0))

CallLast == EnterForEach("last", Undefined)

\* The loop of forEach takes one more turn.  Over a Repeat the loop is
\* followed for MaxPulls calls of next().
ForEachStep ==
  /\ frame # Idle /\ isSome(frame.value)
  /\ lhs.cls = "Repeat" => lhs.calls < MaxPulls
  /\ LET c == ForEachBody(frame, fn, lhs)
     IN /\ frame' = c.frame
        /\ lhs' = c.it
  /\ UNCHANGED <<kind, ctor, throws, intersperse, inners, count, rhs, item, peeked, n,
                 iterSome, fn, hist>>

\* The loop of forEach has ended and the call returns.
ForEachReturn ==
  /\ frame # Idle /\ isNone(frame.value)
  /\ frame' = Idle
  /\ hist' = Append(hist, [op |-> frame.op, arg |-> frame.arg,
                           ret |-> ForEachResult(frame), seen |-> frame.seen,
                           l |-> lhs.calls - frame.base, r |-> 0])
  /\ UNCHANGED <<kind, ctor, throws, intersperse, inners, count, lhs, rhs, item, peeked,
                 n, iterSome, fn>>

\* ---------------------------------------------------------------- Init
\* The state right after `new <kind>(...)`: what the constructor leaves in
\* the wrapped iterator and in #peeked.  Skip and SkipWhile advance the
\* source in their constructor, the other classes only store their arguments.
Construct(k, src, f, c) ==
  CASE k = "SkipWhile" -> SkipWhileLoop(Undefined, src, f)
    [] k = "Skip" -> [it |-> SkipLoop(src, c), peeked |-> Undefined]
    [] OTHER -> [it |-> src, peeked |-> Undefined]

SourcesOf(k) ==
  CASE k \in {"Once", "Successors", "Flatten"} -> {NoSource}
    [] k \in {"FromIter", "Zip", "SkipWhile", "SkipWhileFn", "Iterator", "Filter"} ->
         FiniteSources
    [] k \in {"ForEach", "Fold"} -> FiniteSources \cup {Repeat(x) : x \in Items}
    [] OTHER -> AnySources

AllSources == AnySources \cup {Repeat(x) : x \in Items} \cup {NoSource}

\* K: the classes constructed, T: what their callbacks may throw, S: the
\* iterators they may be given.
InitState(K, T, S) ==
  /\ kind \in K
  /\ hist = <<>>
  /\ frame = Idle
  /\ intersperse = FALSE
  /\ inners \in IF kind = "Flatten" THEN SeqsUpTo(FiniteSources, MaxOuter) ELSE {<<>>}
  /\ throws \in T
  /\ iterSome = TRUE
  /\ count = 0
  /\ rhs \in IF kind \in {"Zip", "Chain", "Intersperse"} THEN FiniteSources ELSE {NoSource}
  /\ item \in CASE kind = "Once" -> Items
                [] kind = "Successors" -> Options
                [] OTHER -> {Undefined}
  /\ n \in IF kind \in {"Take", "Skip"} THEN 0..MaxTake ELSE {0}
  /\ fn \in CASE kind \in {"TakeWhile", "SkipWhile", "SkipWhileFn", "Iterator", "Filter"} ->
                Preds
              [] kind \in {"Map", "Successors"} -> MapFns
              [] kind = "Fold" -> FoldFns
              [] OTHER -> {NoPred}
  /\ \E src \in SourcesOf(kind) \cap S :
       LET c == Construct(kind, src, fn, n)
       IN /\ lhs = c.it
          /\ peeked = c.peeked
          /\ ctor = [item |-> item, n |-> n, lhs |-> src.items, rhs |-> rhs.items,
                     inners |-> [k \in 1..Len(inners) |-> inners[k].items]]

\* The callbacks return normally.
InitKinds(K) == InitState(K, {NoThrows}, AllSources)

Init == InitKinds(Kinds)

CombinatorKinds ==
  {"SkipWhile", "SkipWhileFn", "Skip", "Chain", "Map", "Enumerate", "EnumerateZip"}

InitCombinators == InitKinds(CombinatorKinds)

\* An iterator over a finite sequence on which next() and the consuming
\* methods nth, find, all, any are called.
InitMethods == InitKinds({"Iterator"})

\* A Peekable on which next, peek and nextIf are called.
InitPeekable == InitKinds({"Peekable"})

\* map and filter over a finite sequence, with callbacks that may throw.
InitThrowing == InitState({"Map", "Filter"}, Throws, FiniteSources)

InitFactories == InitKinds({"Successors", "Intersperse", "Flatten"})

\* An iterator on which forEach and the methods built on it are called.
InitTerminal == InitKinds({"ForEach", "Fold"})

Next ==
  \/ NextFromIter
  \/ NextOnce
  \/ NextPeekable
  \/ PeekPeekable
  \/ NextFuse
  \/ NextTake
  \/ NextZip
  \/ NextTakeWhile
  \/ NextLhs
  \/ NextRhs

Spec == Init /\ [][Next]_vars

NextCombinators ==
  \/ NextSkipWhile
  \/ NextSkip
  \/ NextChain
  \/ NextMap
  \/ NextEnumerate
  \/ NextEnumerateZip
  \/ NextSkipWhileFn
  \/ NextLhs

SpecCombinators == InitCombinators /\ [][NextCombinators]_vars

NextMethods ==
  \/ NextLhs
  \/ CallNth
  \/ CallFind
  \/ CallAll
  \/ CallAny

SpecMethods == InitMethods /\ [][NextMethods]_vars

NextPeekables ==
  \/ NextPeekable
  \/ PeekPeekable
  \/ NextIfPeekable
  \/ NextLhs

SpecPeekable == InitPeekable /\ [][NextPeekables]_vars

NextThrowing ==
  \/ NextMap
  \/ NextFilter
  \/ NextLhs

SpecThrowing == InitThrowing /\ [][NextThrowing]_vars

NextFactories ==
  \/ NextSuccessors
  \/ NextIntersperse
  \/ NextFlatten
  \/ NextLhs

SpecFactories == InitFactories /\ [][NextFactories]_vars

NextTerminal ==
  \/ NextLhs
  \/ CallForEach
  \/ CallFold
  \/ CallCount
  \/ CallLast
  \/ ForEachStep
  \/ ForEachReturn

SpecTerminal == InitTerminal /\ [][NextTerminal]_vars

\* ---------------------------------------------------------------- claims
\* Indices of the next() calls made on the iterator under test.
NextCalls == {i \in 1..Len(hist) : hist[i].op = "next"}

\* How many next() calls were made up to and including hist[i].
NextIndex(i) == Cardinality({j \in NextCalls : j <= i})

OnlyNext == \A i \in 1..Len(hist) : hist[i].op = "next"

\* Calls made to lhs.next() by the operations named op.
RECURSIVE PullsBy(_, _)
PullsBy(op, k) ==
  IF k = 0 THEN 0
  ELSE PullsBy(op, k - 1) + (IF hist[k].op = op THEN hist[k].l ELSE 0)

Min(a, b) == IF a <= b THEN a ELSE b

\* C1: an iterator over a finite sequence of N items (FromIter), or
\* once(item) with N = 1, returns the N items in order on its first N
\* next() calls and absent on every later call.
C1_ExhaustionMonotone ==
  kind \in {"FromIter", "Once"} =>
    LET seq == IF kind = "FromIter" THEN ctor.lhs ELSE <<ctor.item>>
    IN \A i \in 1..Len(hist) :
         hist[i].ret = (IF i <= Len(seq) THEN seq[i] ELSE Undefined)

C1_Witness ==
  /\ kind = "FromIter"
  /\ Len(ctor.lhs) = 2
  /\ Len(hist) = 4
  /\ isSome(hist[2].ret)
  /\ isNone(hist[4].ret)

\* C2: consecutive peek() calls with no call in between return the same
\* value.
C2_PeekIdempotent ==
  kind = "Peekable" =>
    \A i \in 1..(Len(hist) - 1) :
      hist[i].op = "peek" /\ hist[i + 1].op = "peek" => hist[i + 1].ret = hist[i].ret

\* C3: in a run of consecutive peek() calls the source's next() is called
\* at most once.
C3_PeekPullsOnce ==
  kind = "Peekable" =>
    \A i \in 1..Len(hist) : \A j \in i..Len(hist) :
      (\A k \in i..j : hist[k].op = "peek") =>
        /\ hist[i].l <= 1
        /\ (i < j => ~(hist[i].l = 1 /\ hist[j].l = 1))

\* C4: peek() followed immediately by next() returns equal values, and
\* that next() takes the buffered item without calling the source.
C4_PeekThenNext ==
  kind = "Peekable" =>
    \A i \in 1..(Len(hist) - 1) :
      hist[i].op = "peek" /\ hist[i + 1].op = "next" =>
        /\ hist[i + 1].ret = hist[i].ret
        /\ hist[i + 1].l = 0

\* C5: once Fuse.next() has returned absent, every later Fuse.next()
\* returns absent and does not call the source's next().
C5_FuseTerminal ==
  kind = "Fuse" =>
    \A i \in NextCalls : \A j \in NextCalls :
      i < j /\ isNone(hist[i].ret) => isNone(hist[j].ret) /\ hist[j].l = 0

C5_Witness ==
  /\ kind = "Fuse"
  /\ Len(hist) >= 2
  /\ hist[1].op = "next" /\ isNone(hist[1].ret)
  /\ hist[2].op = "next" /\ isNone(hist[2].ret)
  /\ isSome(SourceNext(lhs).ret)

\* C6: take(iter, n) returns at most n present values, and every next()
\* call after the n-th returns absent, whatever the source.
C6_TakeBound ==
  kind = "Take" =>
    /\ Cardinality({i \in NextCalls : isSome(hist[i].ret)}) <= ctor.n
    /\ \A i \in NextCalls : NextIndex(i) > ctor.n => isNone(hist[i].ret)

C6_Witness ==
  /\ kind = "Take"
  /\ ctor.n = 2
  /\ lhs.cls = "FromFn"
  /\ OnlyNext /\ Len(hist) = 4
  /\ isSome(hist[1].ret) /\ isSome(hist[2].ret)
  /\ isSome(SourceNext(lhs).ret)

\* C7: take(iter, n) calls the source's next() at most n times, so the
\* source's calls are those of take plus those of its direct callers, and
\* after take(n) over a longer sequence is exhausted the source itself
\* returns item n+1.
C7_TakeLeavesRest ==
  kind = "Take" =>
    /\ PullsBy("next", Len(hist)) <= ctor.n
    /\ lhs.calls = PullsBy("next", Len(hist)) + PullsBy("lhs", Len(hist))
    /\ (/\ lhs.cls = "FromIter"
        /\ OnlyNext
        /\ Len(hist) >= ctor.n
        /\ ctor.n < Len(ctor.lhs)) => SourceNext(lhs).ret = ctor.lhs[ctor.n + 1]

C7_Witness ==
  /\ kind = "Take"
  /\ ctor.n = 2
  /\ lhs.cls = "FromIter" /\ Len(ctor.lhs) = 3
  /\ Len(hist) = 4
  /\ hist[3].op = "next" /\ isNone(hist[3].ret)
  /\ hist[4].op = "lhs" /\ hist[4].ret = ctor.lhs[3]

\* C8: zip over sequences of m and k items returns the pairs (a_i, b_i) on
\* its first min(m, k) next() calls and absent on every later call.
C8_ZipMin ==
  kind = "Zip" /\ OnlyNext =>
    \A i \in 1..Len(hist) :
      hist[i].ret = (IF i <= Min(Len(ctor.lhs), Len(ctor.rhs))
                       THEN ctor.lhs[i] \o ctor.rhs[i]
                       ELSE Undefined)

C8_Witness ==
  /\ kind = "Zip" /\ OnlyNext
  /\ Len(ctor.lhs) = 2 /\ Len(ctor.rhs) = 3
  /\ Len(hist) = 4
  /\ isSome(hist[2].ret)
  /\ isNone(hist[3].ret) /\ isNone(hist[4].ret)

\* C9 (as claimed): a zip.next() call in which the left side returns
\* absent does not call the right side's next().
C9_ZipShortCircuits ==
  kind = "Zip" /\ OnlyNext =>
    \A i \in 1..Len(hist) : i > Len(ctor.lhs) => hist[i].r = 0

\* C9 (amended): every zip.next() call calls next() exactly once on each
\* side, also when the left side returned absent.
C9_ZipPullsBoth ==
  kind = "Zip" => \A i \in NextCalls : hist[i].l = 1 /\ hist[i].r = 1

C9_Witness ==
  /\ kind = "Zip" /\ OnlyNext
  /\ Len(ctor.lhs) = 1 /\ Len(ctor.rhs) = 3
  /\ Len(hist) = 2
  /\ isNone(hist[2].ret) /\ hist[2].r = 1
  /\ rhs.pos = 3

\* C10: after the first source item for which f is false, every later
\* takeWhile.next() returns absent.
C10_TakeWhileTerminal ==
  kind = "TakeWhile" /\ lhs.cls = "FromIter" /\ OnlyNext =>
    \A i \in 1..Len(hist) : \A j \in 1..Len(hist) :
      i < j /\ i <= Len(ctor.lhs) /\ ~fn[ctor.lhs[i]] => isNone(hist[j].ret)
\* C11: after a source item has failed f, later takeWhile.next() calls do
\* not call the source's next().
C11_TakeWhileStopsPulling ==
  kind = "TakeWhile" /\ lhs.cls = "FromIter" /\ OnlyNext =>
    \A i \in 1..Len(hist) : \A j \in 1..Len(hist) :
      i < j /\ i <= Len(ctor.lhs) /\ ~fn[ctor.lhs[i]] => hist[j].l = 0
\* The i-th result of next() on a source that nobody else pulls.
ResultAt(cls, items, i) ==
  IF cls = "FromIter"
    THEN (IF i <= Len(items) THEN items[i] ELSE Undefined)
    ELSE (IF Len(items) = 0 THEN Undefined ELSE items[((i - 1) % Len(items)) + 1])

\* seq without its longest prefix of items satisfying f.
DropWhile(seq, f) ==
  LET fails == {k \in 1..Len(seq) : ~f[seq[k]]}
  IN IF fails = {} THEN <<>>
     ELSE SubSeq(seq, CHOOSE k \in fails : \A m \in fails : k <= m, Len(seq))

\* C12: skipWhile over a finite sequence yields the sequence without its
\* longest prefix of items satisfying f (the first failing item included,
\* later satisfying items too), then absent; in every revision of
\* skipWhile.
C12_SkipWhilePrefix ==
  kind \in {"SkipWhile", "SkipWhileFn"} /\ OnlyNext =>
    LET rest == DropWhile(ctor.lhs, fn)
    IN \A i \in 1..Len(hist) :
         hist[i].ret = (IF i <= Len(rest) THEN rest[i] ELSE Undefined)

C12_Witness ==
  /\ kind = "SkipWhile" /\ OnlyNext
  /\ Len(ctor.lhs) = 3
  /\ fn[ctor.lhs[1]] /\ ~fn[ctor.lhs[2]] /\ fn[ctor.lhs[3]]
  /\ Len(hist) = 3
  /\ hist[1].ret = ctor.lhs[2]
  /\ hist[2].ret = ctor.lhs[3]
  /\ isNone(hist[3].ret)

\* C13: chain over finite sequences yields the items of a, then those of
\* b, then absent; a call returns absent only after calling both sides.
C13_ChainConcat ==
  kind = "Chain" =>
    /\ \A i \in NextCalls : isNone(hist[i].ret) => hist[i].l = 1 /\ hist[i].r = 1
    /\ lhs.cls = "FromIter" /\ OnlyNext =>
         LET both == ctor.lhs \o ctor.rhs
         IN \A i \in 1..Len(hist) :
              hist[i].ret = (IF i <= Len(both) THEN both[i] ELSE Undefined)

C13_Witness ==
  /\ kind = "Chain" /\ lhs.cls = "FromIter" /\ OnlyNext
  /\ Len(ctor.lhs) = 1 /\ Len(ctor.rhs) = 2
  /\ Len(hist) = 4
  /\ hist[1].ret = ctor.lhs[1]
  /\ hist[3].ret = ctor.rhs[2]
  /\ isNone(hist[4].ret)

\* C14 (as claimed): once chain has pulled from b, a.next() is not called
\* again.
C14_ChainLeavesLeft ==
  kind = "Chain" =>
    \A i \in NextCalls : \A j \in NextCalls :
      i < j /\ hist[i].r = 1 => hist[j].l = 0

\* C14 (amended): every chain.next() calls a.next() once, and b.next()
\* exactly when a.next() returned absent; over a finite sequence a, once
\* b has been pulled every later call pulls b.
C14_ChainPullsLeftFirst ==
  kind = "Chain" /\ OnlyNext =>
    /\ \A i \in 1..Len(hist) :
         /\ hist[i].l = 1
         /\ hist[i].r = (IF isSome(ResultAt(lhs.cls, ctor.lhs, i)) THEN 0 ELSE 1)
    /\ lhs.cls = "FromIter" =>
         \A i \in 1..Len(hist) : \A j \in 1..Len(hist) :
           i < j /\ hist[i].r = 1 => hist[j].r = 1

C14_Witness ==
  /\ kind = "Chain" /\ lhs.cls = "FromFn" /\ OnlyNext
  /\ Len(hist) = 3
  /\ hist[2].r = 1 /\ isSome(hist[2].ret)
  /\ hist[3].l = 1 /\ hist[3].r = 0 /\ isSome(hist[3].ret)

\* C15 (as claimed): map yields a present value for every present source
\* item and absent exactly when the source yields absent, whatever f.
C15_MapPresent ==
  kind = "Map" /\ OnlyNext =>
    \A i \in 1..Len(hist) :
      LET x == ResultAt(lhs.cls, ctor.lhs, i)
      IN /\ isSome(x) => hist[i].ret = fn[x]
         /\ isNone(hist[i].ret) <=> isNone(x)

\* C15 (amended): map yields f(x) for a present source item x and absent
\* for absent; the result is present exactly when x is present and f(x)
\* is not null or undefined.
C15_MapApplies ==
  kind = "Map" /\ OnlyNext =>
    \A i \in 1..Len(hist) :
      LET x == ResultAt(lhs.cls, ctor.lhs, i)
      IN /\ hist[i].ret = (IF isSome(x) THEN fn[x] ELSE Undefined)
         /\ isSome(hist[i].ret) <=> (isSome(x) /\ isSome(fn[x]))

C15_Witness ==
  /\ kind = "Map" /\ OnlyNext
  /\ lhs.cls = "FromIter" /\ Len(ctor.lhs) = 2
  /\ Len(hist) = 3
  /\ isNone(fn[ctor.lhs[1]]) /\ isNone(hist[1].ret)
  /\ isSome(hist[2].ret) /\ hist[2].ret # ctor.lhs[2]
  /\ isNone(hist[3].ret)

\* C16: the k-th present pair yielded by enumerate (k from 0) carries
\* index k, also when the source returns absent in between; in every
\* revision of enumerate.
C16_EnumerateIndex ==
  kind \in {"Enumerate", "EnumerateZip"} =>
    \A i \in NextCalls :
      isSome(hist[i].ret) =>
        /\ Len(hist[i].ret) = 2
        /\ hist[i].ret[1] = Cardinality({j \in NextCalls : j < i /\ isSome(hist[j].ret)})

C16_Witness ==
  /\ kind = "Enumerate" /\ OnlyNext
  /\ lhs.cls = "FromFn"
  /\ Len(hist) = 3
  /\ isSome(hist[1].ret) /\ hist[1].ret[1] = 0
  /\ isNone(hist[2].ret)
  /\ isSome(hist[3].ret) /\ hist[3].ret[1] = 1

\* C17: skip(n) over a sequence of N items yields items n+1..N (counted
\* from 1) in order and then absent; absent at once when N <= n.
C17_SkipDrops ==
  kind = "Skip" /\ lhs.cls = "FromIter" /\ OnlyNext =>
    \A i \in 1..Len(hist) :
      hist[i].ret = (IF ctor.n + i <= Len(ctor.lhs)
                       THEN ctor.lhs[ctor.n + i]
                       ELSE Undefined)

C17_Witness ==
  /\ kind = "Skip" /\ lhs.cls = "FromIter" /\ OnlyNext
  /\ ctor.n = 1 /\ Len(ctor.lhs) = 3
  /\ Len(hist) = 3
  /\ hist[1].ret = ctor.lhs[2]
  /\ hist[2].ret = ctor.lhs[3]
  /\ isNone(hist[3].ret)
\* Calls made to lhs.next() by the first k entries of hist.
RECURSIVE PullsTo(_)
PullsTo(k) == IF k = 0 THEN 0 ELSE PullsTo(k - 1) + hist[k].l

Least(S) == CHOOSE k \in S : \A m \in S : k <= m

\* C18: nth(n) on an iterator over a sequence that has consumed p items
\* returns item p+n+1 (counted from 1) and consumes n+1 items when that
\* many remain, and returns absent otherwise.
C18_NthZeroIndexed ==
  kind = "Iterator" =>
    \A i \in 1..Len(hist) :
      hist[i].op = "nth" =>
        LET p == PullsTo(i - 1)
            k == hist[i].arg
        IN IF p + k + 1 <= Len(ctor.lhs)
             THEN hist[i].ret = ctor.lhs[p + k + 1] /\ hist[i].l = k + 1
             ELSE isNone(hist[i].ret)

C18_Witness ==
  /\ kind = "Iterator"
  /\ Len(ctor.lhs) = 3
  /\ Len(hist) = 3
  /\ hist[1].op = "nth" /\ hist[1].arg = 0 /\ hist[1].ret = ctor.lhs[1]
  /\ hist[2].op = "nth" /\ hist[2].arg = 1 /\ hist[2].ret = ctor.lhs[3]
  /\ hist[3].op = "nth" /\ isNone(hist[3].ret)

\* C19: find(f) returns the first item at or after the current position
\* that satisfies f and consumes the items up to and including it, or
\* returns absent when no remaining item satisfies f.
C19_FindFirstMatch ==
  kind = "Iterator" =>
    \A i \in 1..Len(hist) :
      hist[i].op = "find" =>
        LET p == PullsTo(i - 1)
            matches == {k \in (p + 1)..Len(ctor.lhs) : hist[i].arg[ctor.lhs[k]]}
        IN IF matches # {}
             THEN /\ hist[i].ret = ctor.lhs[Least(matches)]
                  /\ hist[i].l = Least(matches) - p
             ELSE isNone(hist[i].ret)

C19_Witness ==
  /\ kind = "Iterator"
  /\ Len(ctor.lhs) = 3
  /\ fn[ctor.lhs[1]] /\ ~fn[ctor.lhs[2]] /\ fn[ctor.lhs[3]]
  /\ Len(hist) = 3
  /\ hist[1].op = "find" /\ hist[1].ret = ctor.lhs[1] /\ hist[1].l = 1
  /\ hist[2].op = "find" /\ hist[2].ret = ctor.lhs[3] /\ hist[2].l = 2
  /\ hist[3].op = "find" /\ isNone(hist[3].ret)

\* C20: all(f) is true iff no remaining item fails f, any(f) is true iff
\* some remaining item satisfies f; a false all (true any) has pulled the
\* items up to the deciding one and no further, so a next() right after
\* it returns the item after the deciding one.
C20_AllAnyShortCircuit ==
  kind = "Iterator" =>
    \A i \in 1..Len(hist) :
      LET p == PullsTo(i - 1)
          rest == (p + 1)..Len(ctor.lhs)
          follows(d) ==
            /\ hist[i].l = d - p
            /\ i < Len(hist) /\ hist[i + 1].op = "lhs" =>
                 hist[i + 1].ret = ResultAt("FromIter", ctor.lhs, d + 1)
      IN /\ hist[i].op = "all" =>
              LET fails == {k \in rest : ~hist[i].arg[ctor.lhs[k]]}
              IN /\ hist[i].ret = (fails = {})
                 /\ fails # {} => follows(Least(fails))
         /\ hist[i].op = "any" =>
              LET holds == {k \in rest : hist[i].arg[ctor.lhs[k]]}
              IN /\ hist[i].ret = (holds # {})
                 /\ holds # {} => follows(Least(holds))

C20_Witness ==
  /\ kind = "Iterator"
  /\ Len(ctor.lhs) = 3
  /\ fn[ctor.lhs[1]] /\ ~fn[ctor.lhs[2]]
  /\ Len(hist) = 3
  /\ hist[1].op = "any" /\ hist[1].ret = TRUE /\ hist[1].l = 1
  /\ hist[2].op = "all" /\ hist[2].ret = FALSE /\ hist[2].l = 1
  /\ hist[3].op = "lhs" /\ hist[3].ret = ctor.lhs[3]

\* The items of the sequence not yet pulled when hist[i] was called.
Remaining(i) ==
  SubSeq(ctor.lhs, Min(PullsTo(i - 1), Len(ctor.lhs)) + 1, Len(ctor.lhs))

RECURSIVE FoldLeft(_, _, _)
FoldLeft(f, a, xs) ==
  IF xs = <<>> THEN a ELSE FoldLeft(f, f[<<a, Head(xs)>>], Tail(xs))

\* C21: fold(init, f) over the remaining items x1..xN returns the left
\* fold f(...f(f(init, x1), x2)..., xN); f is called once per item, in
\* order, the k-th call with the fold of the first k-1 items and xk; over
\* an exhausted iterator it returns init and f is not called.
C21_FoldLeft ==
  kind = "Fold" /\ lhs.cls = "FromIter" =>
    \A i \in 1..Len(hist) :
      hist[i].op = "fold" =>
        LET xs == Remaining(i)
        IN /\ hist[i].ret = FoldLeft(fn, hist[i].arg, xs)
           /\ Len(hist[i].seen) = Len(xs)
           /\ \A k \in 1..Len(xs) :
                hist[i].seen[k] =
                  <<FoldLeft(fn, hist[i].arg, SubSeq(xs, 1, k - 1)), xs[k]>>
           /\ xs = <<>> => hist[i].ret = hist[i].arg /\ hist[i].seen = <<>>

C21_Witness ==
  /\ kind = "Fold" /\ lhs.cls = "FromIter"
  /\ Len(ctor.lhs) = 3
  /\ Len(hist) = 2
  /\ hist[1].op = "fold" /\ Len(hist[1].seen) = 3
  /\ hist[1].seen[2][1] # hist[1].arg /\ hist[1].ret # hist[1].seen[3][1]
  /\ hist[2].op = "fold" /\ hist[2].seen = <<>> /\ hist[2].ret = hist[2].arg

TerminalOps == {"forEach", "fold", "count", "last"}

\* C27: forEach, fold, count and last over a sequence with N items left
\* return after N+1 calls of the source's next() (N+1 over a fresh
\* iterator) and leave the iterator exhausted; over repeat(item) they
\* never return.
C27_TerminalStops ==
  kind \in {"ForEach", "Fold"} =>
    /\ lhs.cls = "FromIter" =>
         \A i \in 1..Len(hist) :
           hist[i].op \in TerminalOps =>
             /\ hist[i].l = Len(Remaining(i)) + 1
             /\ i = 1 => hist[i].l = Len(ctor.lhs) + 1
             /\ i < Len(hist) /\ hist[i + 1].op = "lhs" => isNone(hist[i + 1].ret)
             /\ i = Len(hist) /\ frame = Idle => isNone(SourceNext(lhs).ret)
    /\ lhs.cls = "Repeat" =>
         \A i \in 1..Len(hist) : hist[i].op \notin TerminalOps

C27_Witness ==
  /\ kind = "ForEach" /\ lhs.cls = "FromIter"
  /\ Len(ctor.lhs) = 3
  /\ Len(hist) = 4
  /\ hist[1].op = "lhs"
  /\ hist[2].op = "count" /\ hist[2].ret = Num(2) /\ hist[2].l = 3
  /\ hist[3].op = "lhs" /\ isNone(hist[3].ret)
  /\ hist[4].op = "last" /\ isNone(hist[4].ret) /\ hist[4].l = 1

\* f applied k times to x, absent from the first absent value on.
RECURSIVE Iterate(_, _, _)
Iterate(f, x, k) ==
  IF k = 0 THEN x
  ELSE LET y == Iterate(f, x, k - 1) IN IF isSome(y) THEN f[y] ELSE Undefined

\* C22: the i-th next() of successors(seed, f) returns f applied i-1
\* times to seed (the seed itself first); f is called once by a call that
\* returns a present value, and after a call has returned absent every
\* later call returns absent and does not call f.
C22_Successors ==
  kind = "Successors" =>
    \A i \in 1..Len(hist) :
      /\ hist[i].ret = Iterate(fn, ctor.item, i - 1)
      /\ hist[i].f = (IF isSome(hist[i].ret) THEN 1 ELSE 0)
      /\ \A j \in 1..Len(hist) :
           i < j /\ isNone(hist[i].ret) => isNone(hist[j].ret) /\ hist[j].f = 0

C22_Witness ==
  /\ kind = "Successors"
  /\ Len(hist) = 4
  /\ isSome(ctor.item) /\ hist[1].ret = ctor.item
  /\ hist[2].ret = fn[ctor.item] /\ hist[2].ret # ctor.item /\ hist[2].f = 1
  /\ isNone(hist[3].ret) /\ hist[3].f = 0
  /\ isNone(hist[4].ret) /\ hist[4].f = 0

RECURSIVE Concat(_)
Concat(ss) == IF Len(ss) = 0 THEN <<>> ELSE Head(ss) \o Concat(Tail(ss))

\* C24: flatten over inner iterators i1..ik over finite sequences yields
\* the items of i1, then those of i2, and so on, then absent; an empty
\* inner iterator contributes nothing.
C24_FlattenConcat ==
  kind = "Flatten" =>
    LET all == Concat(ctor.inners)
    IN \A i \in 1..Len(hist) :
         hist[i].ret = (IF i <= Len(all) THEN all[i] ELSE Undefined)

C24_Witness ==
  /\ kind = "Flatten"
  /\ Len(ctor.inners) = 3
  /\ Len(ctor.inners[1]) = 1 /\ Len(ctor.inners[2]) = 0 /\ Len(ctor.inners[3]) = 2
  /\ Len(hist) = 4
  /\ hist[1].ret = ctor.inners[1][1]
  /\ hist[2].ret = ctor.inners[3][1]
  /\ hist[3].ret = ctor.inners[3][2]
  /\ isNone(hist[4].ret)

\* C29: the odd next() calls of intersperse return this.next() and the
\* even ones other.next(), whatever these return, and a call pulls only
\* the side it returns from: after k calls alone the two sources stand at
\* items ceil(k/2)+1 and floor(k/2)+1.
C29_IntersperseAlternates ==
  kind = "Intersperse" =>
    /\ \A i \in NextCalls :
         IF NextIndex(i) % 2 = 1
           THEN hist[i].l = 1 /\ hist[i].r = 0
           ELSE hist[i].l = 0 /\ hist[i].r = 1
    /\ OnlyNext =>
         /\ \A i \in 1..Len(hist) :
              hist[i].ret = (IF i % 2 = 1
                               THEN ResultAt(lhs.cls, ctor.lhs, (i + 1) \div 2)
                               ELSE ResultAt("FromIter", ctor.rhs, i \div 2))
         /\ SourceNext(lhs).ret =
              ResultAt(lhs.cls, ctor.lhs, (Len(hist) + 1) \div 2 + 1)
         /\ SourceNext(rhs).ret = ResultAt("FromIter", ctor.rhs, Len(hist) \div 2 + 1)

C29_Witness ==
  /\ kind = "Intersperse" /\ lhs.cls = "FromIter" /\ OnlyNext
  /\ Len(ctor.lhs) = 3 /\ Len(ctor.rhs) = 1
  /\ Len(hist) = 4
  /\ hist[1].ret = ctor.lhs[1]
  /\ hist[2].ret = ctor.rhs[1]
  /\ hist[3].ret = ctor.lhs[2]
  /\ isNone(hist[4].ret)
  /\ SourceNext(lhs).ret = ctor.lhs[3]

\* C23: constructing a combinator calls the source's next() zero times:
\* before the first call on the new iterator no source has been pulled.
C23_ConstructionLazy ==
  hist = <<>> => lhs.calls = 0 /\ rhs.calls = 0

\* The place in the sequence of the first item after the p-th for which
\* the filter's callback throws or holds; 0 when there is none.
FilterStop(p) ==
  LET stops == {k \in (p + 1)..Len(ctor.lhs) :
                  isSome(throws[ctor.lhs[k]]) \/ fn[ctor.lhs[k]]}
  IN IF stops = {} THEN 0 ELSE Least(stops)

\* C25: a next() of map or filter whose callback throws ends with the
\* very value thrown, after the source has been pulled up to the item the
\* callback threw on; the next call goes on from the item after it, as if
\* the call had returned normally.
C25_CallbackThrows ==
  /\ kind = "Map" /\ OnlyNext =>
       \A i \in 1..Len(hist) :
         LET x == ResultAt(lhs.cls, ctor.lhs, i)
         IN /\ hist[i].l = 1
            /\ IF isSome(x) /\ isSome(throws[x])
                 THEN hist[i].thrown /\ hist[i].ret = throws[x]
                 ELSE ~hist[i].thrown /\ hist[i].ret = Omap(x, fn)
  /\ kind = "Filter" =>
       \A i \in NextCalls :
         LET p == Min(PullsTo(i - 1), Len(ctor.lhs))
             k == FilterStop(p)
         IN IF k = 0
              THEN ~hist[i].thrown /\ isNone(hist[i].ret)
              ELSE /\ hist[i].l = k - p
                   /\ IF isSome(throws[ctor.lhs[k]])
                        THEN hist[i].thrown /\ hist[i].ret = throws[ctor.lhs[k]]
                        ELSE ~hist[i].thrown /\ hist[i].ret = ctor.lhs[k]

C25_Witness ==
  /\ kind = "Filter"
  /\ Len(ctor.lhs) = 3
  /\ Len(hist) = 4 /\ OnlyNext
  /\ hist[1].thrown /\ hist[1].l = 1 /\ hist[1].ret = throws[ctor.lhs[1]]
  /\ ~hist[2].thrown /\ hist[2].ret = ctor.lhs[2]
  /\ hist[3].thrown /\ hist[3].ret = throws[ctor.lhs[3]]
  /\ ~hist[4].thrown /\ isNone(hist[4].ret)

\* The items a Peekable has handed out before hist[i]: the present
\* results of its next() and nextIf() calls.
Taken(i) ==
  Cardinality({j \in 1..(i - 1) : hist[j].op \in {"next", "nextIf"} /\ isSome(hist[j].ret)})

NoLhsCalls == \A i \in 1..Len(hist) : hist[i].op # "lhs"

\* C26: nextIf(f) returns the next item, and consumes it, exactly when
\* the item is present and f holds for it, and returns absent otherwise;
\* a refused item stays in the lookahead: the call after it does not pull
\* the source, next() returns the refused item and nextIf(g) decides on it.
C26_NextIf ==
  kind = "Peekable" =>
    /\ \A i \in 1..Len(hist) :
         hist[i].op = "nextIf" =>
           /\ hist[i].l <= 1
           /\ isSome(hist[i].ret) => hist[i].arg[hist[i].ret] /\ isNone(hist[i].peeked)
           /\ isNone(hist[i].ret) /\ isSome(hist[i].peeked) =>
                /\ ~hist[i].arg[hist[i].peeked]
                /\ i < Len(hist) /\ hist[i + 1].op \in {"next", "peek"} =>
                     hist[i + 1].ret = hist[i].peeked /\ hist[i + 1].l = 0
                /\ i < Len(hist) /\ hist[i + 1].op = "nextIf" =>
                     /\ hist[i + 1].l = 0
                     /\ hist[i + 1].ret = (IF hist[i + 1].arg[hist[i].peeked]
                                             THEN hist[i].peeked ELSE Undefined)
    /\ lhs.cls = "FromIter" /\ NoLhsCalls =>
         \A i \in 1..Len(hist) :
           hist[i].op = "nextIf" =>
             LET x == ResultAt("FromIter", ctor.lhs, Taken(i) + 1)
             IN hist[i].ret = (IF isSome(x) /\ hist[i].arg[x] THEN x ELSE Undefined)

C26_Witness ==
  /\ kind = "Peekable" /\ lhs.cls = "FromIter"
  /\ Len(ctor.lhs) = 2
  /\ Len(hist) = 4
  /\ hist[1].op = "nextIf" /\ hist[1].ret = ctor.lhs[1]
  /\ hist[2].op = "nextIf" /\ isNone(hist[2].ret) /\ hist[2].l = 1
  /\ hist[3].op = "nextIf" /\ isNone(hist[3].ret) /\ hist[3].l = 0
  /\ hist[4].op = "next" /\ hist[4].ret = ctor.lhs[2] /\ hist[4].l = 0

\* C30: over a finite sequence and any interleaving of peek() and next(),
\* the j-th next() returns the j-th item of the sequence (absent past its
\* end), and the items pulled from the source and not yet returned are
\* at most one, the one held in #peeked.
C30_PeekableTransparent ==
  /\ kind = "Peekable" /\ lhs.cls = "FromIter"
  /\ \A i \in 1..Len(hist) : hist[i].op \in {"next", "peek"}
  =>
    /\ \A i \in NextCalls :
         hist[i].ret = ResultAt("FromIter", ctor.lhs, NextIndex(i))
    /\ LET held == (lhs.pos - 1) - Taken(Len(hist) + 1)
       IN /\ held \in {0, 1}
          /\ held = 1 <=> isSome(peeked)
          /\ isSome(peeked) => peeked = ctor.lhs[lhs.pos - 1]

C30_Witness ==
  /\ kind = "Peekable" /\ lhs.cls = "FromIter"
  /\ Len(ctor.lhs) = 2
  /\ Len(hist) = 4
  /\ hist[1].op = "peek" /\ hist[1].ret = ctor.lhs[1]
  /\ hist[2].op = "next" /\ hist[2].ret = ctor.lhs[1]
  /\ hist[3].op = "next" /\ hist[3].ret = ctor.lhs[2]
  /\ hist[4].op = "peek" /\ isNone(hist[4].ret)

\* C28: every zip.next() calls the left side's next() and then the right
\* side's, once each; the left item of a call is consumed also when the
\* right side returns absent, so what the left source returns to a direct
\* caller is its item number (zip calls + direct calls so far), and after
\* zip over m+1 and m items has returned absent the left source is
\* exhausted.
C28_ZipLeftFirst ==
  kind = "Zip" =>
    /\ \A i \in NextCalls :
         hist[i].order = <<"lhs", "rhs">> /\ hist[i].l = 1 /\ hist[i].r = 1
    /\ \A i \in 1..Len(hist) :
         hist[i].op = "lhs" =>
           hist[i].ret =
             ResultAt("FromIter", ctor.lhs,
                      Cardinality({j \in 1..i : hist[j].op \in {"next", "lhs"}}))
    /\ (/\ OnlyNext
        /\ Len(ctor.lhs) = Len(ctor.rhs) + 1
        /\ Len(hist) > Len(ctor.rhs)) => isNone(SourceNext(lhs).ret)

C28_Witness ==
  /\ kind = "Zip"
  /\ Len(ctor.lhs) = 3 /\ Len(ctor.rhs) = 2
  /\ Len(hist) = 4
  /\ hist[1].op = "next" /\ isSome(hist[1].ret)
  /\ hist[2].op = "next" /\ isSome(hist[2].ret)
  /\ hist[3].op = "next" /\ isNone(hist[3].ret) /\ hist[3].l = 1
  /\ hist[4].op = "lhs" /\ isNone(hist[4].ret)
====
